---------------------------- MODULE Spec2Model ----------------------------
(***************************************************************************)
(* Model of the code-review backend (src/src/backend/app/llm.py and        *)
(* main.py): the JSON extractor, the review validator, the two provider    *)
(* operations and the HTTP handlers that call them.                        *)
(*                                                                         *)
(* A text is a sequence of pieces.  A piece is one character ("{", " ",    *)
(* "7") or an indivisible run of characters that the code only ever        *)
(* treats as a whole ("json", "score", and "FENCE" for the run of three    *)
(* backquotes that opens or closes a fenced block).  The text a sequence   *)
(* stands for is the concatenation of its pieces.                          *)
(***************************************************************************)
EXTENDS Integers, Sequences, FiniteSets, TLC

----------------------------------------------------------------------------
(* Python values as tagged records.                                        *)

PyNone == [t |-> "null", v |-> 0]
PyBool(b) == [t |-> "bool", v |-> b]
PyInt(n) == [t |-> "int", v |-> n]
PyStr(s) == [t |-> "str", v |-> s]
PyList(a) == [t |-> "arr", v |-> a]
PyDict(f) == [t |-> "obj", v |-> f]

\* A float of the forms the texts can write: sign, integer part, and the
\* fraction's digits without trailing zeros.
PyFloat(neg, ip, fp) == [t |-> "float", v |-> [neg |-> neg, ip |-> ip, fp |-> fp]]

\* A dict is the sequence of its items in insertion order, its keys distinct.
EmptyDict == PyDict(<<>>)

Item(key, val) == [k |-> key, val |-> val]

DictKeys(m) == {m[i].k : i \in DOMAIN m}

DictHas(m, key) == key \in DictKeys(m)

DictGet(m, key) == m[CHOOSE i \in DOMAIN m : m[i].k = key].val

\* m[key] = val: a present key keeps its place and takes the new value
DictPut(m, key, val) ==
    IF DictHas(m, key)
    THEN [i \in DOMAIN m |-> IF m[i].k = key THEN Item(key, val) ELSE m[i]]
    ELSE Append(m, Item(key, val))

\* An exception: its class and its message, the message a sequence of
\* parts (the fixed text that tells where it was raised, then what the
\* f-string adds to it).
Exc(cls, msg) == [cls |-> cls, msg |-> msg]
NoExc == Exc("none", <<>>)

\* The outcome of a call: a returned value or a raised exception.
Ok(val) == [ok |-> TRUE, val |-> val, err |-> NoExc]
Raise(cls, msg) == [ok |-> FALSE, val |-> PyNone, err |-> Exc(cls, <<msg>>)]
\* no call was made
NotRun == [ok |-> FALSE, val |-> PyNone, err |-> Exc("not run", <<>>)]
RaiseWith(cls, msg, more) == [ok |-> FALSE, val |-> PyNone, err |-> Exc(cls, <<msg, more>>)]

----------------------------------------------------------------------------
(* json.loads on a text of pieces.                                         *)

Digits == {"0", "1", "2", "3", "4", "5", "6", "7", "8", "9"}

DigitVal(c) ==
    CASE c = "0" -> 0 [] c = "1" -> 1 [] c = "2" -> 2 [] c = "3" -> 3
      [] c = "4" -> 4 [] c = "5" -> 5 [] c = "6" -> 6 [] c = "7" -> 7
      [] c = "8" -> 8 [] c = "9" -> 9

At(t, i) == IF i >= 1 /\ i <= Len(t) THEN t[i] ELSE "<eof>"

\* the least element of a non-empty set of positions
First(S) == CHOOSE j \in S : \A k \in S : j <= k

\* \s*: the first position from i on that holds no white space
SkipWs(t, i) ==
    IF i > Len(t) THEN i ELSE First({j \in i..(Len(t) + 1) : At(t, j) # " "})

PFail == [ok |-> FALSE, val |-> PyNone, pos |-> 0]
POk(val, pos) == [ok |-> TRUE, val |-> val, pos |-> pos]

\* the characters of a string literal whose opening quote is at i - 1
RECURSIVE ScanString(_, _, _)
ScanString(t, i, acc) ==
    IF i > Len(t) THEN PFail
    ELSE IF t[i] = "\"" THEN POk(PyStr(acc), i + 1)
    ELSE IF t[i] = "\\"
         THEN IF At(t, i + 1) \in {"\"", "\\"}
              THEN ScanString(t, i + 2, Append(acc, t[i + 1]))
              ELSE PFail
    ELSE ScanString(t, i + 1, Append(acc, t[i]))

RECURSIVE ScanDigits(_, _, _)
ScanDigits(t, i, n) ==
    IF At(t, i) \in Digits THEN ScanDigits(t, i + 1, 10 * n + DigitVal(t[i]))
    ELSE [val |-> n, pos |-> i]

\* the digits of a fraction from position i, as a sequence of digit values
RECURSIVE ScanFraction(_, _, _)
ScanFraction(t, i, acc) ==
    IF At(t, i) \in Digits THEN ScanFraction(t, i + 1, Append(acc, DigitVal(t[i])))
    ELSE [val |-> acc, pos |-> i]

RECURSIVE StripZeros(_)
StripZeros(ds) ==
    IF ds # <<>> /\ ds[Len(ds)] = 0 THEN StripZeros(SubSeq(ds, 1, Len(ds) - 1)) ELSE ds

\* -? ( 0 | [1-9][0-9]* ) ( \. [0-9]+ )?
ScanNumber(t, i) ==
    LET neg == At(t, i) = "-"
        s == IF neg THEN i + 1 ELSE i
        d == IF At(t, s) = "0" THEN [val |-> 0, pos |-> s + 1] ELSE ScanDigits(t, s, 0)
        f == ScanFraction(t, d.pos + 1, <<>>)
    IN  IF At(t, s) \notin Digits THEN PFail
        ELSE IF At(t, d.pos) = "." /\ f.val # <<>>
             THEN POk(PyFloat(neg, d.val, StripZeros(f.val)), f.pos)
        ELSE POk(PyInt(IF neg THEN 0 - d.val ELSE d.val), d.pos)

RECURSIVE ParseValue(_, _)
RECURSIVE ParseMembers(_, _, _)
RECURSIVE ParseElements(_, _, _)

\* the members of an object, the next key's opening quote expected at i
ParseMembers(t, i, acc) ==
    IF At(t, i) # "\"" THEN PFail
    ELSE LET k == ScanString(t, i + 1, <<>>)
         IN  IF ~k.ok THEN PFail
             ELSE LET c == SkipWs(t, k.pos)
                  IN  IF At(t, c) # ":" THEN PFail
                      ELSE LET x == ParseValue(t, SkipWs(t, c + 1))
                           IN  IF ~x.ok THEN PFail
                               ELSE LET e == SkipWs(t, x.pos)
                                        f == DictPut(acc, k.val.v, x.val)
                                    IN  IF At(t, e) = "}" THEN POk(PyDict(f), e + 1)
                                        ELSE IF At(t, e) = ","
                                             THEN ParseMembers(t, SkipWs(t, e + 1), f)
                                        ELSE PFail

\* the elements of an array, the next element expected at i
ParseElements(t, i, acc) ==
    LET x == ParseValue(t, i)
    IN  IF ~x.ok THEN PFail
        ELSE LET e == SkipWs(t, x.pos)
                 a == Append(acc, x.val)
             IN  IF At(t, e) = "]" THEN POk(PyList(a), e + 1)
                 ELSE IF At(t, e) = ","
                      THEN ParseElements(t, SkipWs(t, e + 1), a)
                 ELSE PFail

ParseValue(t, i) ==
    LET c == At(t, i)
    IN  CASE c = "{" ->
               LET j == SkipWs(t, i + 1)
               IN  IF At(t, j) = "}" THEN POk(EmptyDict, j + 1)
                   ELSE ParseMembers(t, j, <<>>)
          [] c = "[" ->
               LET j == SkipWs(t, i + 1)
               IN  IF At(t, j) = "]" THEN POk(PyList(<<>>), j + 1)
                   ELSE ParseElements(t, j, <<>>)
          [] c = "\"" -> ScanString(t, i + 1, <<>>)
          [] c = "-" \/ c \in Digits -> ScanNumber(t, i)
          [] c = "null" -> POk(PyNone, i + 1)
          [] c = "true" -> POk(PyBool(TRUE), i + 1)
          [] c = "false" -> POk(PyBool(FALSE), i + 1)
          [] OTHER -> PFail

\* json.loads: one value, white space around it, nothing else
JsonLoads(t) ==
    LET x == ParseValue(t, SkipWs(t, 1))
    IN  IF x.ok /\ SkipWs(t, x.pos) > Len(t)
        THEN Ok(x.val)
        ELSE Raise("JSONDecodeError", "json.loads")

----------------------------------------------------------------------------
(* The two regular expressions of the extractor, as re.search applies them. *)

\* FENCE(?:json)?\s*(\{.*?\})\s*FENCE tried at position i: group 1 as
\* <<start, end>>, the end the first "}" after the start that white space
\* and a fence follow (.*? is lazy); <<0, 0>> where it does not match
FenceGroupAt(t, i) ==
    IF At(t, i) # "FENCE" THEN <<0, 0>>
    ELSE LET j == IF At(t, i + 1) = "json" THEN i + 2 ELSE i + 1
             p == SkipWs(t, j)
             ends == {e \in (p + 1)..Len(t) :
                        t[e] = "}" /\ At(t, SkipWs(t, e + 1)) = "FENCE"}
         IN  IF At(t, p) # "{" \/ ends = {} THEN <<0, 0>>
             ELSE <<p, First(ends)>>

\* re.search: the match at the leftmost position that has one
FenceSearch(t) ==
    LET starts == {i \in 1..Len(t) : FenceGroupAt(t, i) # <<0, 0>>}
    IN  IF starts = {} THEN [found |-> FALSE, group |-> <<>>]
        ELSE LET g == FenceGroupAt(t, First(starts))
             IN  [found |-> TRUE, group |-> SubSeq(t, g[1], g[2])]

\* [^{}]*: the first position from i on that holds a brace
SkipNonBrace(t, i) ==
    IF i > Len(t) THEN i
    ELSE First({j \in i..(Len(t) + 1) : At(t, j) \in {"{", "}", "<eof>"}})

\* (?:\{[^{}]*\}[^{}]*)*\} from position j: the end of the match, 0 if none
RECURSIVE BraceTail(_, _)
BraceTail(t, j) ==
    IF At(t, j) = "}" THEN j
    ELSE IF At(t, j) = "{"
         THEN LET k == SkipNonBrace(t, j + 1)
              IN  IF At(t, k) = "}" THEN BraceTail(t, SkipNonBrace(t, k + 1)) ELSE 0
    ELSE 0

\* \{[^{}]*(?:\{[^{}]*\}[^{}]*)*\} tried at position i
BraceEndAt(t, i) ==
    IF At(t, i) # "{" THEN 0 ELSE BraceTail(t, SkipNonBrace(t, i + 1))

BraceSearch(t) ==
    LET starts == {i \in 1..Len(t) : BraceEndAt(t, i) # 0}
    IN  IF starts = {} THEN [found |-> FALSE, group |-> <<>>]
        ELSE LET i == First(starts)
             IN  [found |-> TRUE, group |-> SubSeq(t, i, BraceEndAt(t, i))]

----------------------------------------------------------------------------
(* _extract_json_from_text                                                 *)

_extract_json_from_text(text) ==
    LET direct == JsonLoads(text)
        fenced == FenceSearch(text)
        braced == BraceSearch(text)
    IN  IF direct.ok THEN direct
        ELSE IF fenced.found THEN JsonLoads(fenced.group)
        ELSE IF braced.found THEN JsonLoads(braced.group)
        ELSE Raise("ValueError", "Could not extract JSON from response")

----------------------------------------------------------------------------
(* The Python built-ins the validator applies: truth, str(), int(), list(), *)
(* and the in operator.                                                    *)

Truthy(x) ==
    CASE x.t = "null" -> FALSE
      [] x.t = "bool" -> x.v
      [] x.t = "int" -> x.v # 0
      [] x.t = "float" -> x.v.ip # 0 \/ x.v.fp # <<>>
      [] x.t \in {"str", "arr", "obj"} -> x.v # <<>>

DigitPiece(d) ==
    CASE d = 0 -> "0" [] d = 1 -> "1" [] d = 2 -> "2" [] d = 3 -> "3"
      [] d = 4 -> "4" [] d = 5 -> "5" [] d = 6 -> "6" [] d = 7 -> "7"
      [] d = 8 -> "8" [] d = 9 -> "9"

\* the decimal digits of n >= 0
RECURSIVE NatPieces(_)
NatPieces(n) ==
    IF n < 10 THEN <<DigitPiece(n)>>
    ELSE Append(NatPieces(n \div 10), DigitPiece(n % 10))

IntPieces(n) == IF n < 0 THEN <<"-">> \o NatPieces(0 - n) ELSE NatPieces(n)

FloatPieces(f) ==
    (IF f.neg THEN <<"-">> ELSE <<>>) \o NatPieces(f.ip) \o <<".">>
      \o (IF f.fp = <<>> THEN <<"0">> ELSE [i \in DOMAIN f.fp |-> DigitPiece(f.fp[i])])

\* s with a backslash before each of its pieces that is in special
RECURSIVE Escaped(_, _)
Escaped(s, special) ==
    IF s = <<>> THEN <<>>
    ELSE (IF s[1] \in special THEN <<"\\", s[1]>> ELSE <<s[1]>>)
           \o Escaped(Tail(s), special)

\* repr(x), and str(x) for everything that is not a string
RECURSIVE Repr(_)
RECURSIVE ReprItems(_, _)
ReprItems(xs, isDict) ==
    IF xs = <<>> THEN <<>>
    ELSE LET one == IF isDict
                    THEN Repr(PyStr(xs[1].k)) \o <<":", " ">> \o Repr(xs[1].val)
                    ELSE Repr(xs[1])
         IN  one \o (IF Len(xs) > 1 THEN <<",", " ">> ELSE <<>>)
                 \o ReprItems(Tail(xs), isDict)

Repr(x) ==
    CASE x.t = "null" -> <<"None">>
      [] x.t = "bool" -> IF x.v THEN <<"True">> ELSE <<"False">>
      [] x.t = "int" -> IntPieces(x.v)
      [] x.t = "float" -> FloatPieces(x.v)
      [] x.t = "str" -> <<"'">> \o Escaped(x.v, {"\\"}) \o <<"'">>
      [] x.t = "arr" -> <<"[">> \o ReprItems(x.v, FALSE) \o <<"]">>
      [] x.t = "obj" -> <<"{">> \o ReprItems(x.v, TRUE) \o <<"}">>

\* str(x)
StrOf(x) == IF x.t = "str" THEN x ELSE PyStr(Repr(x))

\* the characters of a piece
CharsOf(p) ==
    CASE p = "FENCE" -> <<"BQ", "BQ", "BQ">>
      [] p = "json" -> <<"j", "s", "o", "n">>
      [] p = "null" -> <<"n", "u", "l", "l">>
      [] p = "true" -> <<"t", "r", "u", "e">>
      [] p = "false" -> <<"f", "a", "l", "s", "e">>
      [] p = "None" -> <<"N", "o", "n", "e">>
      [] p = "True" -> <<"T", "r", "u", "e">>
      [] p = "False" -> <<"F", "a", "l", "s", "e">>
      [] p = "review" -> <<"r", "e", "v", "i", "e", "w">>
      [] p = "suggestions" -> <<"s", "u", "g", "g", "e", "s", "t", "i", "o", "n", "s">>
      [] p = "score" -> <<"s", "c", "o", "r", "e">>
      [] p = "text" -> <<"t", "e", "x", "t">>
      [] p = "severity" -> <<"s", "e", "v", "e", "r", "i", "t", "y">>
      [] p = "category" -> <<"c", "a", "t", "e", "g", "o", "r", "y">>
      [] p = "high" -> <<"h", "i", "g", "h">>
      [] p = "low" -> <<"l", "o", "w">>
      [] OTHER -> <<p>>

RECURSIVE Chars(_)
Chars(s) == IF s = <<>> THEN <<>> ELSE CharsOf(s[1]) \o Chars(Tail(s))

\* needle in hay, for two strings
IsSubstring(needle, hay) ==
    LET n == Chars(needle)
        h == Chars(hay)
    IN  \E i \in 0..(Len(h) - Len(n)) : SubSeq(h, i + 1, i + Len(n)) = n

\* int(x)
IntOf(x) ==
    CASE x.t = "int" -> Ok(x)
      [] x.t = "bool" -> Ok(PyInt(IF x.v THEN 1 ELSE 0))
      [] x.t = "float" -> Ok(PyInt(IF x.v.neg THEN 0 - x.v.ip ELSE x.v.ip))
      [] x.t = "str" ->
           LET s == x.v
               a == SkipWs(s, 1)
               neg == At(s, a) = "-"
               b == IF neg THEN a + 1 ELSE a
               d == ScanDigits(s, b, 0)
           IN  IF d.pos > b /\ SkipWs(s, d.pos) > Len(s)
               THEN Ok(PyInt(IF neg THEN 0 - d.val ELSE d.val))
               ELSE Raise("ValueError", "invalid literal for int()")
      [] OTHER -> Raise("TypeError", "int() argument")

\* list(x)
ListOf(x) ==
    CASE x.t = "arr" -> Ok(x)
      [] x.t = "str" -> LET c == Chars(x.v)
                        IN  Ok(PyList([i \in DOMAIN c |-> PyStr(<<c[i]>>)]))
      [] x.t = "obj" -> Ok(PyList([i \in DOMAIN x.v |-> PyStr(x.v[i].k)]))
      [] OTHER -> Raise("TypeError", "object is not iterable")

\* key in x, for a string key: a Raise where x supports no membership test
Contains(key, x) ==
    CASE x.t = "obj" -> Ok(PyBool(DictHas(x.v, key)))
      [] x.t = "arr" -> Ok(PyBool(\E i \in DOMAIN x.v : x.v[i] = PyStr(key)))
      [] x.t = "str" -> Ok(PyBool(IsSubstring(key, x.v)))
      [] OTHER -> Raise("TypeError", "argument is not iterable")

----------------------------------------------------------------------------
(* _validate_review_response                                               *)

required_keys == {<<"review">>, <<"suggestions">>, <<"score">>}

Max(a, b) == IF a >= b THEN a ELSE b
Min(a, b) == IF a <= b THEN a ELSE b

\* a clamp without the lower bound
ClampAbove(n) == Min(10, n)

\* max(1, min(10, score))
ClampScore(n) == Max(1, Min(10, n))

\* the normalisation of a dict that holds the three keys
NormalizeReview(m) ==
    LET review == StrOf(DictGet(m, <<"review">>))
        sugg == DictGet(m, <<"suggestions">>)
        suggestions == IF Truthy(sugg) THEN ListOf(sugg) ELSE Ok(PyList(<<>>))
        sc == DictGet(m, <<"score">>)
        score == IF Truthy(sc) THEN IntOf(sc) ELSE Ok(PyInt(5))
    IN  IF ~suggestions.ok THEN suggestions
        ELSE IF ~score.ok THEN score
        ELSE Ok(PyDict(DictPut(DictPut(DictPut(m, <<"review">>, review),
                                       <<"suggestions">>, suggestions.val),
                               <<"score">>, PyInt(ClampScore(score.val.v)))))

_validate_review_response(result) ==
    IF result.t \notin {"obj", "arr", "str"}
    THEN Raise("TypeError", "argument is not iterable")
    ELSE IF \E k \in required_keys : ~Contains(k, result).val.v
         THEN IF result.t = "obj"
              THEN Raise("ValueError", "Response missing required keys")
              ELSE Raise("AttributeError", "object has no attribute keys")
    ELSE IF result.t = "obj" THEN NormalizeReview(result.v)
    ELSE Raise("TypeError", "indices must be integers")

----------------------------------------------------------------------------
(* stringify: the JSON text of a value, as json.dumps writes it.           *)

RECURSIVE Stringify(_)
RECURSIVE StringifyItems(_, _)
StringifyItems(xs, isDict) ==
    IF xs = <<>> THEN <<>>
    ELSE LET one == IF isDict
                    THEN Stringify(PyStr(xs[1].k)) \o <<":", " ">> \o Stringify(xs[1].val)
                    ELSE Stringify(xs[1])
         IN  one \o (IF Len(xs) > 1 THEN <<",", " ">> ELSE <<>>)
                 \o StringifyItems(Tail(xs), isDict)

Stringify(x) ==
    CASE x.t = "null" -> <<"null">>
      [] x.t = "bool" -> IF x.v THEN <<"true">> ELSE <<"false">>
      [] x.t = "int" -> IntPieces(x.v)
      [] x.t = "float" -> FloatPieces(x.v)
      [] x.t = "str" -> <<"\"">> \o Escaped(x.v, {"\\", "\""}) \o <<"\"">>
      [] x.t = "arr" -> <<"[">> \o StringifyItems(x.v, FALSE) \o <<"]">>
      [] x.t = "obj" -> <<"{">> \o StringifyItems(x.v, TRUE) \o <<"}">>

----------------------------------------------------------------------------
(* Exception classes: each class with the classes it inherits from.        *)

Ancestors(cls) ==
    CASE cls \in {"AuthenticationError", "RateLimitError", "BadRequestError",
                  "InternalServerError"} ->
             {cls, "APIStatusError", "APIError", "OpenAIError", "Exception"}
      [] cls = "APIConnectionError" -> {cls, "APIError", "OpenAIError", "Exception"}
      [] cls = "APIError" -> {cls, "OpenAIError", "Exception"}
      [] cls = "JSONDecodeError" -> {cls, "ValueError", "Exception"}
      [] cls = "KeyError" -> {cls, "LookupError", "Exception"}
      [] OTHER -> {cls, "Exception"}

IsInstance(e, base) == base \in Ancestors(e.cls)

----------------------------------------------------------------------------
(* The provider's answer to one chat.completions.create call: a raised     *)
(* fault, or a response with its choices, the first choice's content and   *)
(* finish reason.                                                          *)

Fault(cls) == [fault |-> cls, choices |-> 0, content |-> PyNone, finish |-> "none"]
NoChoices == [fault |-> "none", choices |-> 0, content |-> PyNone, finish |-> "none"]
Completion(content, finish) ==
    [fault |-> "none", choices |-> 1, content |-> content, finish |-> finish]

\* the checks without the finish reason in the failure
ContentOfBare(reply) ==
    IF reply.fault # "none" THEN Raise(reply.fault, "provider")
    ELSE IF reply.choices = 0 THEN Raise("ValueError", "No choices returned from API")
    ELSE IF ~Truthy(reply.content) THEN Raise("ValueError", "Empty response from model")
    ELSE Ok(reply.content)

\* lines 160-168 and 231-239: the usable content of the answer
ContentOf(reply) ==
    IF reply.fault # "none" THEN Raise(reply.fault, "provider")
    ELSE IF reply.choices = 0 THEN Raise("ValueError", "No choices returned from API")
    ELSE IF ~Truthy(reply.content)
         THEN RaiseWith("ValueError", "Empty response from model", reply.finish)
    ELSE Ok(reply.content)

\* the except clauses that close both operations, in their order
Rewrap(e, what) ==
    IF IsInstance(e, "JSONDecodeError")
    THEN Raise("ValueError", "Invalid JSON in model response")
    ELSE IF IsInstance(e, "BadRequestError") \/ IsInstance(e, "RateLimitError")
              \/ IsInstance(e, "APIError")
         THEN RaiseWith("ValueError", "Azure OpenAI API error", e.cls)
    ELSE IF IsInstance(e, "ValueError") THEN [ok |-> FALSE, val |-> PyNone, err |-> e]
    ELSE RaiseWith("ValueError", what, e.cls)

----------------------------------------------------------------------------
(* get_code_review                                                         *)

Suggestion(text, severity, category) ==
    PyDict(<<Item(<<"text">>, PyStr(<<text>>)),
             Item(<<"severity">>, PyStr(<<severity>>)),
             Item(<<"category">>, PyStr(<<category>>))>>)

MockReview ==
    PyDict(<<Item(<<"review">>,
                  PyStr(<<"Mock review: Code looks good! (API not configured)">>)),
             Item(<<"suggestions">>,
                  PyList(<<Suggestion("Add more comments to explain complex logic",
                                      "low", "readability"),
                           Suggestion("Consider adding error handling for edge cases",
                                      "medium", "maintainability")>>)),
             Item(<<"score">>, PyInt(7))>>)

\* line 171: the extractor applied to the answer's content, NotRun where the
\* operation does not get that far
Extracted(reply) ==
    IF ContentOf(reply).ok THEN _extract_json_from_text(reply.content.v) ELSE NotRun

\* the try body after the provider call (lines 160-172), extracted being
\* what the extractor call of line 171 returned or raised
ReviewBody(reply, extracted) ==
    LET content == ContentOf(reply)
    IN  IF ~content.ok THEN content
        ELSE IF ~extracted.ok THEN extracted
        ELSE _validate_review_response(extracted.val)

\* the operation's outcome for the provider's answer (client configured)
get_code_review(reply, extracted) ==
    LET body == ReviewBody(reply, extracted)
    IN  IF body.ok THEN body
        ELSE Rewrap(body.err, "Unexpected error during code review")

----------------------------------------------------------------------------
(* get_code_suggestions                                                    *)

MockSuggestions ==
    PyList(<<Suggestion("Consider adding type hints", "medium", "readability"),
             Suggestion("Add docstrings to functions", "medium", "maintainability"),
             Suggestion("Use more descriptive variable names", "low", "readability")>>)

\* s.get(key, default)
GetOr(m, key, default) == IF DictHas(m, key) THEN DictGet(m, key) ELSE default

\* lines 250-263: one element of the model's list as a suggestion
StructureSuggestion(s) ==
    IF s.t = "obj"
    THEN PyDict(<<Item(<<"text">>, StrOf(GetOr(s.v, <<"text">>, s))),
                  Item(<<"severity">>,
                       StrOf(GetOr(s.v, <<"severity">>, PyStr(<<"medium">>)))),
                  Item(<<"category">>,
                       StrOf(GetOr(s.v, <<"category">>, PyStr(<<"maintainability">>))))>>)
    ELSE PyDict(<<Item(<<"text">>, StrOf(s)),
                  Item(<<"severity">>, PyStr(<<"medium">>)),
                  Item(<<"category">>, PyStr(<<"maintainability">>))>>)

\* the structuring with the elements in reverse order
StructureReversed(result) ==
    IF result.t # "obj" THEN Raise("AttributeError", "object has no attribute get")
    ELSE LET suggestions == GetOr(result.v, <<"suggestions">>, PyList(<<>>))
         IN  IF suggestions.t # "arr"
             THEN RaiseWith("ValueError", "Expected suggestions to be a list", suggestions.t)
             ELSE Ok(PyList([i \in DOMAIN suggestions.v |->
                                StructureSuggestion(
                                    suggestions.v[Len(suggestions.v) + 1 - i])]))

\* lines 243-265: the suggestions of the extracted value
StructureSuggestions(result) ==
    IF result.t # "obj" THEN Raise("AttributeError", "object has no attribute get")
    ELSE LET suggestions == GetOr(result.v, <<"suggestions">>, PyList(<<>>))
         IN  IF suggestions.t # "arr"
             THEN RaiseWith("ValueError", "Expected suggestions to be a list", suggestions.t)
             ELSE Ok(PyList([i \in DOMAIN suggestions.v |->
                                StructureSuggestion(suggestions.v[i])]))

\* the try body after the provider call (lines 231-265), extracted being
\* what the extractor call of line 242 returned or raised
SuggestionsBody(reply, extracted) ==
    LET content == ContentOf(reply)
    IN  IF ~content.ok THEN content
        ELSE IF ~extracted.ok THEN extracted
        ELSE StructureSuggestions(extracted.val)

get_code_suggestions(reply, extracted) ==
    LET body == SuggestionsBody(reply, extracted)
    IN  IF body.ok THEN body
        ELSE Rewrap(body.err, "Unexpected error getting suggestions")

----------------------------------------------------------------------------
(* The HTTP layer: request validation, the handlers' except clauses and    *)
(* the response model.                                                     *)

MinCodeLength == 10
MaxCodeLength == 10000

\* CodeReviewRequest: code's length bounds (language and context are optional)
\* bounds that are one character too wide on each side
LooseRequest(r) == r.codeLen >= MinCodeLength - 1 /\ r.codeLen <= MaxCodeLength + 1

ValidRequest(r) == r.codeLen >= MinCodeLength /\ r.codeLen <= MaxCodeLength

Response(status, body) == [status |-> status, body |-> body]
NoResponse == Response(0, PyNone)

\* raise HTTPException(status_code, detail)
HTTPException(status, detail) ==
    Response(status, PyDict(<<Item(<<"detail">>, PyStr(detail))>>))

\* the 422 that answers a request body that fails validation
Unprocessable == HTTPException(422, <<"validation error">>)

\* str as a field type.  (Whether a number is also taken, as a string,
\* depends on the installed pydantic; no input here puts a number there.)
FieldStr(x) == x.t = "str"

\* class Suggestion
IsSuggestion(x) ==
    /\ x.t = "obj"
    /\ \A k \in {<<"text">>, <<"severity">>, <<"category">>} :
          DictHas(x.v, k) /\ FieldStr(DictGet(x.v, k))

AsSuggestion(x) ==
    PyDict(<<Item(<<"text">>, StrOf(DictGet(x.v, <<"text">>))),
             Item(<<"severity">>, StrOf(DictGet(x.v, <<"severity">>))),
             Item(<<"category">>, StrOf(DictGet(x.v, <<"category">>)))>>)

\* response_model=CodeReviewResponse applied to what the handler returns:
\* the fields of the model, or the server error of a value that does not fit
CodeReviewResponse(x) ==
    LET m == x.v
        ok == /\ x.t = "obj"
              /\ \A k \in required_keys : DictHas(m, k)
              /\ FieldStr(DictGet(m, <<"review">>))
              /\ DictGet(m, <<"score">>).t = "int"
              /\ DictGet(m, <<"suggestions">>).t = "arr"
              /\ \A i \in DOMAIN DictGet(m, <<"suggestions">>).v :
                    IsSuggestion(DictGet(m, <<"suggestions">>).v[i])
        sugg == DictGet(m, <<"suggestions">>).v
    IN  IF ok
        THEN Response(200,
               PyDict(<<Item(<<"review">>, StrOf(DictGet(m, <<"review">>))),
                        Item(<<"suggestions">>,
                             PyList([i \in DOMAIN sugg |-> AsSuggestion(sugg[i])])),
                        Item(<<"score">>, DictGet(m, <<"score">>))>>))
        ELSE Response(500, PyStr(<<"Internal Server Error">>))

\* review_code's except clauses, in their order
ReviewExcept(e) ==
    IF IsInstance(e, "AuthenticationError")
    THEN HTTPException(401, <<"Authentication failed">>)
    ELSE IF IsInstance(e, "RateLimitError")
         THEN HTTPException(429, <<"Rate limit exceeded">>)
    ELSE IF IsInstance(e, "APIConnectionError")
         THEN HTTPException(503, <<"Unable to connect to Azure OpenAI service">>)
    ELSE IF IsInstance(e, "APIError")
         THEN HTTPException(502, <<"Azure OpenAI API error">> \o e.msg)
    ELSE IF IsInstance(e, "JSONDecodeError")
         THEN HTTPException(500, <<"Failed to parse AI response">>)
    ELSE IF IsInstance(e, "KeyError")
         THEN HTTPException(500, <<"Invalid response structure from AI">> \o e.msg)
    ELSE HTTPException(500, <<"An unexpected error occurred">> \o e.msg)

\* review_code: the response to what get_code_review returned or raised
review_code(outcome) ==
    IF outcome.ok THEN CodeReviewResponse(outcome.val)
    ELSE ReviewExcept(outcome.err)

\* suggest_improvements: the response to what get_code_suggestions did
suggest_improvements(outcome) ==
    IF outcome.ok
    THEN Response(200, PyDict(<<Item(<<"suggestions">>, outcome.val)>>))
    ELSE HTTPException(500, outcome.err.msg)

----------------------------------------------------------------------------
(* POST /complexity.  A code is the sequence of its lines, written as runs  *)
(* of equal lines: n copies of a line that has so many leading tabs and     *)
(* spaces (in any order) and then its body, a sequence of pieces whose      *)
(* first is no whitespace.  A keyword stands in a body as one piece.        *)

Whitespace == {" ", "\t"}

Line(tabs, spaces, body) == [tabs |-> tabs, spaces |-> spaces, body |-> body]

Run(n, line) == [n |-> n, line |-> line]

EmptyLine == Line(0, 0, <<>>)

\* len(piece)
PieceLen(piece) ==
    CASE piece = "def " -> 4
      [] piece = "fn " -> 3
      [] piece = "func " -> 5
      [] piece = "function " -> 9
      [] piece = "async def " -> 10
      [] piece = "//" -> 2
      [] OTHER -> 1

RECURSIVE BodyLen(_)
BodyLen(body) ==
    IF body = <<>> THEN 0 ELSE PieceLen(body[1]) + BodyLen(SubSeq(body, 2, Len(body)))

\* len(code): the lines and the newlines between them
RECURSIVE CodeLength(_)
CodeLength(code) ==
    IF code = <<>> THEN 0 - 1
    ELSE code[1].n * (code[1].line.tabs + code[1].line.spaces + BodyLen(code[1].line.body) + 1)
           + CodeLength(SubSeq(code, 2, Len(code)))

\* str.rstrip() of a body
RECURSIVE RStrip(_)
RStrip(body) ==
    IF body # <<>> /\ body[Len(body)] \in Whitespace
    THEN RStrip(SubSeq(body, 1, Len(body) - 1))
    ELSE body

\* a line of whitespace only
IsBlank(line) == line.body = <<>>

\* line 175: code.strip().split('\n').  The blank lines at both ends go, the
\* first line left loses its indentation, the last its trailing whitespace.
StripSplit(code) ==
    LET inked == {i \in DOMAIN code : ~IsBlank(code[i].line)}
    IN  IF inked = {} THEN <<Run(1, EmptyLine)>>
        ELSE LET a == CHOOSE i \in inked : \A j \in inked : i <= j
                 b == CHOOSE i \in inked : \A j \in inked : i >= j
                 head == <<Run(1, Line(0, 0, code[a].line.body))>>
                           \o (IF code[a].n > 1 THEN <<Run(code[a].n - 1, code[a].line)>>
                               ELSE <<>>)
                 upto == head \o SubSeq(code, a + 1, b)
                 last == upto[Len(upto)]
                 tail == (IF last.n > 1 THEN <<Run(last.n - 1, last.line)>> ELSE <<>>)
                           \o <<Run(1, [last.line EXCEPT !.body = RStrip(@)])>>
             IN  SubSeq(upto, 1, Len(upto) - 1) \o tail

\* line 176: len(lines)
RECURSIVE line_count(_)
line_count(lines) ==
    IF lines = <<>> THEN 0 ELSE lines[1].n + line_count(SubSeq(lines, 2, Len(lines)))

\* line 180
function_keywords == {"def ", "function ", "async def ", "func ", "fn "}

\* line 183: any(keyword in line.strip() ...): a keyword at the end of the
\* line has lost its blank
HasKeyword(line) ==
    \E i \in DOMAIN line.body :
        /\ line.body[i] \in function_keywords
        /\ \E j \in DOMAIN line.body : j > i /\ line.body[j] \notin Whitespace

\* lines 181-184
RECURSIVE function_count(_)
function_count(lines) ==
    IF lines = <<>> THEN 0
    ELSE (IF HasKeyword(lines[1].line) THEN lines[1].n ELSE 0)
           + function_count(SubSeq(lines, 2, Len(lines)))

\* line 194: empty lines and comments are skipped
Skipped(line) == line.body = <<>> \/ line.body[1] \in {"#", "//"}

\* lines 199-205: the tabs of the indentation if the line holds a tab
\* anywhere, else a level for every four spaces
Depth(line) ==
    IF line.tabs > 0 \/ (\E i \in DOMAIN line.body : line.body[i] = "\t")
    THEN line.tabs
    ELSE line.spaces \div 4

\* lines 187-208
RECURSIVE max_depth(_)
max_depth(lines) ==
    IF lines = <<>> THEN 0
    ELSE Max(IF Skipped(lines[1].line) THEN 0 ELSE Depth(lines[1].line),
             max_depth(SubSeq(lines, 2, Len(lines))))

\* lines 216-221
LinePoints(n) == IF n > 200 THEN 3 ELSE IF n > 100 THEN 2 ELSE IF n > 50 THEN 1 ELSE 0

\* lines 225-230
FunctionPoints(n) == IF n > 10 THEN 3 ELSE IF n > 5 THEN 2 ELSE IF n > 2 THEN 1 ELSE 0

\* lines 234-241
DepthPoints(n) ==
    IF n > 5 THEN 4 ELSE IF n > 3 THEN 3 ELSE IF n > 2 THEN 2 ELSE IF n > 1 THEN 1 ELSE 0

\* a score that is not capped
Uncapped(score) == score

\* line 244: min(score, 10)
CapScore(score) == Min(score, 10)

\* lines 212-244
complexity_score(lines, functions, depth) ==
    CapScore(1 + LinePoints(lines) + FunctionPoints(functions) + DepthPoints(depth))

\* lines 247-254
Analysis(score) ==
    IF score <= 3 THEN "Low complexity - code is simple and easy to understand."
    ELSE IF score <= 6 THEN "Moderate complexity - code is reasonably maintainable."
    ELSE IF score <= 8
         THEN "High complexity - consider refactoring for better maintainability."
    ELSE "Very high complexity - strongly recommend breaking into smaller functions."

\* class ComplexityResponse
ComplexityResponse(lines, functions, depth, score, analysis) ==
    Response(200, PyDict(<<Item(<<"lines">>, PyInt(lines)),
                           Item(<<"functions">>, PyInt(functions)),
                           Item(<<"max_nesting_depth">>, PyInt(depth)),
                           Item(<<"complexity_score">>, PyInt(score)),
                           Item(<<"analysis">>, PyStr(<<analysis>>))>>))

\* the handler; nothing in its try block raises
analyze_complexity(code) ==
    LET lines == StripSplit(code)
        score == complexity_score(line_count(lines), function_count(lines),
                                  max_depth(lines))
    IN  ComplexityResponse(line_count(lines), function_count(lines), max_depth(lines),
                           score, Analysis(score))

----------------------------------------------------------------------------
(* The inputs the model draws from.                                        *)

MaxRequests == 2
ScoreSpan == 2
MaxProse == 1
MaxJunkLen == 3

\* requests: the code by its length, the optional language and context
CodeLengths == {0, MinCodeLength - 1, MinCodeLength, MaxCodeLength, MaxCodeLength + 1}

Requests ==
    [codeLen : CodeLengths, language : {"python", "none"}, context : BOOLEAN]

\* values a model may put under "score"
Scores ==
    {PyInt(n) : n \in (0 - ScoreSpan)..(10 + ScoreSpan)}
      \cup {PyNone, PyBool(FALSE), PyBool(TRUE), PyStr(<<>>), PyStr(<<"7">>),
            PyStr(<<" ", "1", "1", " ">>), PyStr(<<"-", "3">>), PyStr(<<"high">>),
            PyFloat(FALSE, 0, <<>>), PyFloat(FALSE, 0, <<5>>), PyFloat(FALSE, 7, <<5>>),
            PyFloat(TRUE, 3, <<2>>), PyList(<<>>), PyList(<<PyInt(7)>>), EmptyDict}

\* values a model may put under "suggestions"
SuggestionValues ==
    {PyList(<<>>), PyNone,
     PyList(<<Suggestion("x", "high", "security")>>),
     PyList(<<PyStr(<<"x">>), Suggestion("y", "low", "security")>>),
     PyList(<<PyDict(<<Item(<<"text">>, PyStr(<<"x">>))>>)>>),
     PyList(<<PyDict(<<Item(<<"severity">>, PyStr(<<>>)),
                       Item(<<"category">>, PyNone)>>), PyInt(3)>>),
     PyStr(<<"x", "json">>), PyInt(3),
     PyDict(<<Item(<<"text">>, PyStr(<<"x">>))>>)}

\* values a model may put under "review"
ReviewValues ==
    {PyStr(<<"ok">>), PyInt(1), PyStr(<<"}", "FENCE">>), PyStr(<<"a", "\"", "\\">>),
     PyDict(<<Item(<<"a">>, EmptyDict)>>)}

Review(r, s, n) ==
    PyDict(<<Item(<<"review">>, r), Item(<<"suggestions">>, s), Item(<<"score">>, n)>>)

\* objects with the three keys
FullObjects ==
    {Review(PyStr(<<"ok">>), s, PyInt(7)) : s \in SuggestionValues}
      \cup {Review(PyStr(<<"ok">>), PyList(<<>>), n) : n \in Scores}
      \cup {Review(r, PyList(<<>>), PyInt(7)) : r \in ReviewValues}

\* objects that lack one of them
PartialObjects ==
    {EmptyDict,
     PyDict(<<Item(<<"review">>, PyStr(<<"ok">>)), Item(<<"suggestions">>, PyList(<<>>))>>),
     PyDict(<<Item(<<"review">>, PyStr(<<"ok">>)), Item(<<"score">>, PyInt(7))>>),
     PyDict(<<Item(<<"score">>, PyInt(7)), Item(<<"suggestions">>, PyList(<<>>))>>),
     PyDict(<<Item(<<"a">>, PyDict(<<Item(<<"b">>, EmptyDict)>>))>>)}
      \cup {PyDict(<<Item(<<"suggestions">>, s)>>) : s \in SuggestionValues}

Objects == FullObjects \cup PartialObjects

\* prose of n pieces
Prose(n) == [i \in 1..n |-> IF i % 2 = 1 THEN "x" ELSE " "]

\* lead, a fenced block around body, trail
Fenced(lead, tag, body, trail) ==
    lead \o <<"FENCE">> \o tag \o <<" ">> \o body \o <<" ", "FENCE">> \o trail

FencedTexts ==
    {Fenced(Prose(a), tag, Stringify(o), Prose(b)) :
        a \in 0..MaxProse, b \in 0..MaxProse, tag \in {<<>>, <<"json">>}, o \in Objects}

\* an object in prose, without a fence
EmbeddedTexts ==
    {Prose(a) \o <<" ">> \o Stringify(o) \o Prose(b) :
        a \in 1..MaxProse, b \in 0..MaxProse, o \in Objects}

JunkPieces == {"{", "}", "FENCE", "x", "7"}

JunkTexts == UNION {[1..n -> JunkPieces] : n \in 1..MaxJunkLen}

\* texts that hold more than one candidate, and JSON that is no object
OtherTexts ==
    {<<"{", "}", " ", "FENCE", "{", "x", "}", "FENCE">>,
     <<"FENCE", "{", "x", "}", "FENCE", " ", "{", "}">>,
     <<"{", "x", "}", " ", "{", "}">>,
     <<"FENCE", "x", "FENCE", " ", "{", "}">>,
     <<"[", "7", "]">>, <<"[", "\"", "review", "\"", "]">>,
     <<"\"", "x", "\"">>, <<"\"", "review", "suggestions", "score", "\"">>,
     <<"null">>, <<"true">>, <<"x", " ", "x">>, <<"7", ".", "5">>}

Contents ==
    {Stringify(o) : o \in Objects} \cup FencedTexts \cup EmbeddedTexts
      \cup JunkTexts \cup OtherTexts

MaxTabs == 6

\* lines of every depth
PlainLines ==
    {Line(t, 0, <<"x">>) : t \in 0..MaxTabs} \cup {Line(0, n, <<"x">>) : n \in {8, 13, 24}}

\* lines with keywords, comments, tabs after the indentation, blank lines
OddLines ==
    {Line(0, 24, <<"fn ", "x">>), Line(0, 0, <<"def ", "x">>),
     Line(8, 0, <<"#", "def ", "x">>), Line(0, 4, <<"def ">>),
     Line(0, 8, <<"x", "\t", "x">>), Line(2, 4, <<"x", " ">>), Line(0, 24, <<>>),
     Line(1, 0, <<"//", "x">>), Line(0, 0, <<"x", "function ", "\t">>)}

\* how often a line is repeated: around the thresholds of lines 216-230
RunLengths == {1, 3, 6, 11, 51, 101, 201, 401}

\* the codes sent to POST /complexity
Codes ==
    {<<Run(k, Line(MaxTabs, 0, <<"def ", "x">>))>> : k \in RunLengths}
      \cup {<<Run(1, Line(0, 0, <<"x">>)), Run(3, l)>> : l \in PlainLines \cup OddLines}
      \cup {<<Run(3, l)>> : l \in OddLines}
      \cup {<<Run(2, EmptyLine), Run(2, l), Run(2, Line(0, 24, <<>>))>> : l \in OddLines}

ProviderFaults ==
    {"AuthenticationError", "RateLimitError", "APIConnectionError", "BadRequestError",
     "InternalServerError", "RuntimeError"}

FinishReasons == {"stop", "length"}

Replies ==
    {Fault(c) : c \in ProviderFaults} \cup {NoChoices}
      \cup {Completion(c, f) : c \in {PyNone, PyStr(<<>>)}, f \in FinishReasons}
      \cup {Completion(PyStr(t), "stop") : t \in Contents}

----------------------------------------------------------------------------
(* The service: one request at a time from its arrival to its response.    *)

VARIABLES
    client,     \* whether the provider client was built at start (llm.py 19-25)
    pc,         \* "idle", "awaiting" (the provider call is pending), "done"
    endpoint,   \* the endpoint of the current request
    req,        \* the current request
    code,       \* its code, where the handler reads it (POST /complexity)
    calls,      \* provider requests issued for the current request
    reply,      \* the provider's answer to the current request
    parsed,     \* what _extract_json_from_text returned for it
    outcome,    \* what the operation returned or raised
    resp,       \* the response
    sent,       \* responses sent for the current request
    served      \* requests answered so far

vars == <<client, pc, endpoint, req, code, calls, reply, parsed, outcome, resp,
          sent, served>>

NoReply == [fault |-> "none", choices |-> 0, content |-> PyNone, finish |-> "no reply"]
NoRequest == [codeLen |-> 0, language |-> "none", context |-> FALSE]
NoCode == <<>>

Init ==
    /\ client \in BOOLEAN
    /\ pc = "idle"
    /\ endpoint = "none"
    /\ req = NoRequest
    /\ code = NoCode
    /\ calls = 0
    /\ reply = NoReply
    /\ parsed = NotRun
    /\ outcome = NotRun
    /\ resp = NoResponse
    /\ sent = 0
    /\ served = 0

\* an operation that calls the provider even without a client
AlwaysCalls(configured) == TRUE

\* an operation that calls again after a rate limit or a connection fault
RetriesFault(answer) == answer.fault \in {"RateLimitError", "APIConnectionError"}

\* if not client: whether the operation calls the provider
CallsProvider(configured) == configured

\* whether the operation issues its request again after an answer: the call
\* stands in no loop, so it never does
Retries(answer) == FALSE

\* what a new request resets
Fresh(path, r) ==
    /\ endpoint' = path
    /\ req' = r
    /\ code' = NoCode
    /\ reply' = NoReply
    /\ parsed' = NotRun
    /\ UNCHANGED client

\* the 422 of a request body that fails validation: no handler runs
Reject ==
    /\ resp' = Unprocessable
    /\ outcome' = NotRun
    /\ calls' = 0
    /\ sent' = 1
    /\ pc' = "done"
    /\ served' = served + 1

\* the operation returned the mock, and the handler its response
Mocked(mock) ==
    /\ outcome' = Ok(mock)
    /\ calls' = 0
    /\ sent' = 1
    /\ pc' = "done"
    /\ served' = served + 1

\* the handler is suspended in the operation's provider call
Await ==
    /\ outcome' = NotRun
    /\ resp' = NoResponse
    /\ calls' = 1
    /\ sent' = 0
    /\ pc' = "awaiting"
    /\ served' = served

\* the provider answered and the operation does not call again
Resumed ==
    /\ sent' = sent + 1
    /\ pc' = "done"
    /\ served' = served + 1
    /\ UNCHANGED <<client, endpoint, req, code, calls>>

\* the provider answered and the operation calls again
Retried ==
    /\ calls' = calls + 1
    /\ UNCHANGED <<client, endpoint, req, code, pc, parsed, outcome, resp, sent, served>>

\* POST /review arrives
PostReview ==
    /\ pc \in {"idle", "done"}
    /\ served < MaxRequests
    /\ \E r \in Requests :
          /\ Fresh("review", r)
          /\ IF ~ValidRequest(r) THEN Reject
             ELSE IF ~CallsProvider(client)
                  THEN Mocked(MockReview) /\ resp' = review_code(outcome')
             ELSE Await

\* the provider answers get_code_review's call
ReviewAnswer ==
    /\ pc = "awaiting"
    /\ endpoint = "review"
    /\ \E a \in Replies :
          /\ reply' = a
          /\ IF Retries(a) THEN Retried
             ELSE /\ parsed' = Extracted(a)
                  /\ outcome' = get_code_review(a, parsed')
                  /\ resp' = review_code(outcome')
                  /\ Resumed

\* POST /suggest arrives
PostSuggest ==
    /\ pc \in {"idle", "done"}
    /\ served < MaxRequests
    /\ \E r \in Requests :
          /\ Fresh("suggest", r)
          /\ IF ~ValidRequest(r) THEN Reject
             ELSE IF ~CallsProvider(client)
                  THEN Mocked(MockSuggestions) /\ resp' = suggest_improvements(outcome')
             ELSE Await

\* the provider answers get_code_suggestions's call
SuggestAnswer ==
    /\ pc = "awaiting"
    /\ endpoint = "suggest"
    /\ \E a \in Replies :
          /\ reply' = a
          /\ IF Retries(a) THEN Retried
             ELSE /\ parsed' = Extracted(a)
                  /\ outcome' = get_code_suggestions(a, parsed')
                  /\ resp' = suggest_improvements(outcome')
                  /\ Resumed

\* POST /complexity arrives: the handler runs to its response
PostComplexity ==
    /\ pc \in {"idle", "done"}
    /\ served < MaxRequests
    /\ \E c \in Codes, l \in {"python", "none"}, x \in BOOLEAN :
          /\ endpoint' = "complexity"
          /\ req' = [codeLen |-> CodeLength(c), language |-> l, context |-> x]
          /\ code' = c
          /\ reply' = NoReply
          /\ parsed' = NotRun
          /\ UNCHANGED client
          /\ IF ~ValidRequest(req') THEN Reject
             ELSE /\ resp' = analyze_complexity(c)
                  /\ outcome' = NotRun
                  /\ calls' = 0
                  /\ sent' = 1
                  /\ pc' = "done"
                  /\ served' = served + 1

Next == PostReview \/ ReviewAnswer \/ PostSuggest \/ SuggestAnswer

Spec == Init /\ [][Next]_vars

\* the service under requests to POST /complexity, whose handler shares
\* nothing with the other two but the client
ComplexityNext == PostComplexity

SpecComplexity == Init /\ [][ComplexityNext]_vars

----------------------------------------------------------------------------
(* Properties.                                                             *)

\* the request being answered passed validation and reached the provider
Answered == pc = "done" /\ reply # NoReply

\* the text the extractor was applied to
Content == reply.content.v

Field(x, key) == DictGet(x.v, <<key>>)

\* C1: on POST /review the status follows the kind of the provider fault
\* (401 rejected credentials, 429 rate limit, 503 connection fault, 502 any
\* other provider API error), and the fault reaches the handler's except
\* clauses as the kind the provider raised.
C1_FaultStatus ==
    (Answered /\ endpoint = "review" /\ "APIError" \in Ancestors(reply.fault)) =>
        /\ outcome.err.cls = reply.fault
        /\ resp.status = CASE reply.fault = "AuthenticationError" -> 401
                           [] reply.fault = "RateLimitError" -> 429
                           [] reply.fault = "APIConnectionError" -> 503
                           [] OTHER -> 502

\* a Suggestion: text, severity and category, all strings, the last two
\* not empty
WellFormedSuggestion(x) ==
    /\ x.t = "obj"
    /\ \A k \in {<<"text">>, <<"severity">>, <<"category">>} :
          DictHas(x.v, k) /\ DictGet(x.v, k).t = "str"
    /\ Field(x, "severity").v # <<>>
    /\ Field(x, "category").v # <<>>

\* out is what the claim makes of the model's element inp
DefaultsFilled(inp, out) ==
    /\ (inp.t = "obj" /\ ~DictHas(inp.v, <<"severity">>))
          => Field(out, "severity") = PyStr(<<"medium">>)
    /\ (inp.t = "obj" /\ ~DictHas(inp.v, <<"category">>))
          => Field(out, "category") = PyStr(<<"maintainability">>)
    /\ inp.t = "str" =>
          /\ Field(out, "text") = inp
          /\ Field(out, "severity") = PyStr(<<"medium">>)
          /\ Field(out, "category") = PyStr(<<"maintainability">>)

\* the suggestions of a returned result, and the list they were made from
ReturnedSuggestions ==
    IF endpoint = "review" THEN Field(outcome.val, "suggestions").v ELSE outcome.val.v

GivenSuggestions == Field(parsed.val, "suggestions").v

\* C2: every element of the suggestions of a result that get_code_review or
\* get_code_suggestions returns is a Suggestion with text, severity and
\* category, the last two non-empty strings; an object element that lacks a
\* sub-field has the defaults medium / maintainability, and a bare string
\* became a Suggestion with that text and the defaults.
C2_SuggestionsNormalized ==
    (Answered /\ outcome.ok) =>
        \A i \in DOMAIN ReturnedSuggestions :
            /\ WellFormedSuggestion(ReturnedSuggestions[i])
            /\ (DictHas(parsed.val.v, <<"suggestions">>)
                  /\ Field(parsed.val, "suggestions").t = "arr")
                  => DefaultsFilled(GivenSuggestions[i], ReturnedSuggestions[i])

SchemaViolation == Exc("ValueError", <<"Response missing required keys">>)

\* C3: the validator fails with SchemaViolation exactly when one of review,
\* suggestions, score is absent from the parsed object, and returns a result
\* for every object that holds all three, whatever their values.
C3_FailsOnlyOnAbsentKey ==
    (Answered /\ endpoint = "review" /\ parsed.ok /\ parsed.val.t = "obj") =>
        LET present == required_keys \subseteq DictKeys(parsed.val.v)
        IN  /\ (~present) <=> (~outcome.ok /\ outcome.err = SchemaViolation)
            /\ present => outcome.ok

\* the score the model gave
GivenScore == Field(parsed.val, "score")

\* C4: a result the validator returns, and so every 200 response of
\* POST /review, has an integer score from 1 to 10: 5 for a falsy input
\* score, and otherwise the input turned into an integer, 1 if that is
\* below 1 and 10 if it is above 10.
C4_ScoreClamped ==
    /\ (Answered /\ endpoint = "review" /\ outcome.ok) =>
          LET score == Field(outcome.val, "score")
              given == GivenScore
          IN  /\ score.t = "int"
              /\ score.v >= 1 /\ score.v <= 10
              /\ (given.t = "null" \/ (given.t \in {"str", "arr", "obj"} /\ given.v = <<>>))
                    => score.v = 5
              /\ ((given.t = "int" /\ given.v = 0) \/ (given.t = "bool" /\ ~given.v))
                    => score.v = 5
              /\ (given.t = "int" /\ given.v # 0) =>
                    score.v = IF given.v < 1 THEN 1
                              ELSE IF given.v > 10 THEN 10 ELSE given.v
              /\ (given.t = "float" /\ given.v.ip \in 1..10 /\ ~given.v.neg)
                    => score.v = given.v.ip
    /\ (pc = "done" /\ endpoint = "review" /\ resp.status = 200) =>
          /\ Field(resp.body, "score").t = "int"
          /\ Field(resp.body, "score").v \in 1..10

\* C4's case: a score above 10 was given and a result returned
C4_Witness ==
    /\ Answered /\ endpoint = "review" /\ outcome.ok /\ resp.status = 200
    /\ GivenScore.t = "int" /\ GivenScore.v > 10

\* the extractor's failure: the ValueError of line 46, or the decoder's own
\* ValueError
UnparsableResponse(r) == ~r.ok /\ r # NotRun /\ IsInstance(r.err, "ValueError")

\* what the three strategies of C5 yield when a strategy whose candidate
\* does not parse falls through to the next one
FirstSuccess(text) ==
    LET direct == JsonLoads(text)
        fenced == FenceSearch(text)
        braced == BraceSearch(text)
    IN  IF direct.ok THEN direct
        ELSE IF fenced.found /\ JsonLoads(fenced.group).ok THEN JsonLoads(fenced.group)
        ELSE IF braced.found /\ JsonLoads(braced.group).ok THEN JsonLoads(braced.group)
        ELSE Raise("ValueError", "Could not extract JSON from response")

\* C5: the extractor tries the whole text, then the contents of a fenced
\* block, then the first balanced brace region, returns what the first
\* strategy that parses yields, and fails with UnparsableResponse only when
\* none of the three parses.
C5_FirstSuccessWins ==
    parsed # NotRun =>
        IF FirstSuccess(Content).ok
        THEN parsed = FirstSuccess(Content)
        ELSE UnparsableResponse(parsed)

NoBrace(text) == \A i \in DOMAIN text : text[i] \notin {"{", "}"}

\* C6: for a text without a brace character the extractor fails with
\* UnparsableResponse and returns no value.
C6_NoBraceFails ==
    (parsed # NotRun /\ NoBrace(Content)) => UnparsableResponse(parsed)

\* C7: the extractor returns O from stringify(O), and from leading prose, a
\* fenced block that holds stringify(O), and trailing prose, for every JSON
\* object O.
C7_RoundTrip ==
    parsed # NotRun =>
        \A o \in Objects :
            /\ Content = Stringify(o) => parsed = Ok(o)
            /\ \A a, b \in 0..MaxProse, tag \in {<<>>, <<"json">>} :
                  Content = Fenced(Prose(a), tag, Stringify(o), Prose(b))
                      => parsed = Ok(o)

\* C8: without a provider client no provider request is ever issued, and
\* every valid request is answered with the same body: on /review the fixed
\* review text, the same two suggestions and score 7, on /suggest the same
\* three suggestions, whatever the request holds and however many requests
\* came before.
C8_MockDeterminism ==
    ~client =>
        /\ calls = 0 /\ reply = NoReply /\ pc # "awaiting"
        /\ (pc = "done" /\ ValidRequest(req) /\ endpoint = "review") =>
              /\ resp.status = 200
              /\ DictKeys(resp.body.v) = {<<"review">>, <<"suggestions">>, <<"score">>}
              /\ Field(resp.body, "review") =
                    PyStr(<<"Mock review: Code looks good! (API not configured)">>)
              /\ Field(resp.body, "score") = PyInt(7)
              /\ Field(resp.body, "suggestions") =
                    PyList(<<Suggestion("Add more comments to explain complex logic",
                                        "low", "readability"),
                             Suggestion("Consider adding error handling for edge cases",
                                        "medium", "maintainability")>>)
        /\ (pc = "done" /\ ValidRequest(req) /\ endpoint = "suggest") =>
              /\ resp.status = 200
              /\ resp.body =
                    PyDict(<<Item(<<"suggestions">>,
                        PyList(<<Suggestion("Consider adding type hints",
                                            "medium", "readability"),
                                 Suggestion("Add docstrings to functions",
                                            "medium", "maintainability"),
                                 Suggestion("Use more descriptive variable names",
                                            "low", "readability")>>))>>)

\* C8's case: a later request answered without a client
C8_Witness ==
    /\ ~client /\ pc = "done" /\ served >= 2 /\ endpoint = "review"
    /\ ValidRequest(req) /\ req.context /\ resp.status = 200

\* C9: a POST /review whose code is shorter than 10 or longer than 10000
\* characters gets status 422 with a body that holds detail, and the review
\* operation does not run for it: no provider request, no mock result.
C9_LengthRejected ==
    (endpoint = "review" /\ (req.codeLen < 10 \/ req.codeLen > 10000)) =>
        /\ pc = "done"
        /\ resp.status = 422
        /\ resp.body.t = "obj" /\ DictHas(resp.body.v, <<"detail">>)
        /\ sent = 1
        /\ calls = 0 /\ reply = NoReply
        /\ parsed = NotRun /\ outcome = NotRun

\* C9's case: a code of 9 characters was refused
C9_Witness ==
    /\ pc = "done" /\ endpoint = "review" /\ req.codeLen = 9 /\ resp.status = 422

\* C10: with a provider client, a valid request issues exactly one provider
\* request (one call of client.chat.completions.create): one is pending
\* while the handler waits, and whatever the answer (a result, empty content,
\* unparsable text, a schema violation, a provider fault) the request ends
\* with that one request and one response.
C10_OneProviderRequest ==
    client =>
        /\ pc = "awaiting" => calls = 1 /\ sent = 0
        /\ (pc = "done" /\ endpoint \in {"review", "suggest"} /\ ValidRequest(req)) =>
              calls = 1 /\ sent = 1 /\ reply # NoReply /\ resp.status # 0

\* C10's case: a rate-limit fault ended the request
C10_Witness ==
    /\ client /\ pc = "done" /\ reply.fault = "RateLimitError"
    /\ calls = 1 /\ sent = 1 /\ resp.status = 500

\* C11: a valid POST /complexity issues no provider request and is answered
\* 200 with an integer complexity_score from 1 to 10, which is 1 plus 0-3
\* points for the lines, 0-3 for the functions and 0-4 for the depth, capped
\* at 10; and a request that repeats the code of the one before it gets the
\* same response.
C11_ComplexityScore ==
    /\ [](calls = 0 /\ reply = NoReply /\ pc # "awaiting")
    /\ []((pc = "done" /\ endpoint = "complexity" /\ ValidRequest(req)) =>
            /\ resp.status = 200
            /\ sent = 1
            /\ Field(resp.body, "complexity_score").t = "int"
            /\ Field(resp.body, "complexity_score").v \in 1..10
            /\ \E a \in 0..3, b \in 0..3, c \in 0..4 :
                  /\ Field(resp.body, "complexity_score").v
                        = IF 1 + a + b + c > 10 THEN 10 ELSE 1 + a + b + c
                  /\ a = LinePoints(Field(resp.body, "lines").v)
                  /\ b = FunctionPoints(Field(resp.body, "functions").v)
                  /\ c = DepthPoints(Field(resp.body, "max_nesting_depth").v))
    /\ [][(endpoint = "complexity" /\ endpoint' = "complexity" /\ code' = code)
             => resp' = resp]_vars

\* C11's case: a code of more than 200 lines, more than 10 functions and a
\* depth above 5, whose points add up to 11
C11_Witness ==
    /\ pc = "done" /\ endpoint = "complexity" /\ resp.status = 200 /\ served >= 2
    /\ Field(resp.body, "lines").v > 200
    /\ Field(resp.body, "functions").v > 10
    /\ Field(resp.body, "max_nesting_depth").v > 5
    /\ Field(resp.body, "complexity_score").v = 10

\* C12: a value the extractor returns is a JSON object, never an array, a
\* string, a number, a boolean or null, so the validator and the suggestions
\* reader are applied to objects only.
C12_ExtractReturnsObject ==
    parsed.ok => parsed.val.t = "obj"

\* the three string fields of class Suggestion
ThreeStrings(x) ==
    /\ x.t = "obj"
    /\ DictKeys(x.v) = {<<"text">>, <<"severity">>, <<"category">>}
    /\ \A k \in DictKeys(x.v) : DictGet(x.v, k).t = "str"

\* out is made from the element inp of the model's list
MadeFrom(inp, out) ==
    /\ ThreeStrings(out)
    /\ inp.t = "str" => Field(out, "text") = inp
    /\ (inp.t = "obj" /\ DictHas(inp.v, <<"text">>) /\ Field(inp, "text").t = "str")
          => Field(out, "text") = Field(inp, "text")

\* C13: get_code_suggestions, given a parsed object: a suggestions field that
\* is no list fails with the schema violation of line 246 and POST /suggest
\* answers 500; without the field the result is the empty list; a list gives
\* one Suggestion for each element, in the order of the model's output.
C13_SuggestionsShape ==
    (Answered /\ endpoint = "suggest" /\ parsed.ok /\ parsed.val.t = "obj") =>
        IF ~DictHas(parsed.val.v, <<"suggestions">>)
        THEN /\ outcome = Ok(PyList(<<>>))
             /\ resp = Response(200, PyDict(<<Item(<<"suggestions">>, PyList(<<>>))>>))
        ELSE IF Field(parsed.val, "suggestions").t # "arr"
        THEN /\ ~outcome.ok
             /\ outcome.err.cls = "ValueError"
             /\ outcome.err.msg[1] = "Expected suggestions to be a list"
             /\ resp.status = 500
        ELSE /\ outcome.ok
             /\ outcome.val.t = "arr"
             /\ Len(outcome.val.v) = Len(GivenSuggestions)
             /\ \A i \in DOMAIN GivenSuggestions :
                   MadeFrom(GivenSuggestions[i], outcome.val.v[i])
             /\ resp = Response(200, PyDict(<<Item(<<"suggestions">>, outcome.val)>>))

\* C13's case: a list of two different elements, a bare string first
C13_Witness ==
    /\ Answered /\ endpoint = "suggest" /\ outcome.ok /\ resp.status = 200
    /\ Len(outcome.val.v) = 2
    /\ Field(outcome.val.v[1], "text") = PyStr(<<"x">>)
    /\ Field(outcome.val.v[2], "text") = PyStr(<<"y">>)

\* the detail of an error response
Detail == Field(resp.body, "detail").v

=============================================================================
